---- MODULE Spec2Model ----
(***************************************************************************)
(* Titon.TypeAhead (src/src/js/modules/TypeAhead.js): one widget bound to  *)
(* one input element.  Strings are sequences of UTF-16 code units, arrays  *)
(* are sequences (JavaScript index i is TLA+ index i + 1).                 *)
(***************************************************************************)
EXTENDS Integers, Sequences, FiniteSets, TLC

\* ------------------------------------------------------------------ bounds
MaxItems == 3
MaxInFlight == 1
MaxTimers == 2
MaxBurst == 2

\* ----------------------------------------------------------------- strings
\* "a", "ab", "Ab", "b": the candidate items a source can hold, in source order
Candidates == << <<97>>, <<97, 98>>, <<65, 98>>, <<98>> >>

\* what the input element can hold when a non-navigation key is released:
\* "", "a", " ab"
InputValues == { <<>>, <<97>>, <<32, 97, 98>> }

\* the remote locator, as a cache key: "/"
Url == <<47>>

\* String(undefined), what input.set('value', undefined) leaves in the input
undefined == <<117, 110, 100, 101, 102, 105, 110, 101, 100>>

NavKeys == {"up", "down", "esc", "tab", "enter"}

Min(a, b) == IF a < b THEN a ELSE b

\* the arrays a source can hold or answer with: [], ["a"], ["a", "ab"],
\* ["a", "ab", "Ab"], ... up to MaxItems items
Lists == { SubSeq(Candidates, 1, n) : n \in 0..Min(MaxItems, Len(Candidates)) }

\* String.prototype.toLowerCase on the code units in use
toLowerCase(s) == [i \in DOMAIN s |-> IF s[i] \in 65..90 THEN s[i] + 32 ELSE s[i]]

\* String.prototype.trim: drop leading and trailing spaces
RECURSIVE trimLeft(_)
trimLeft(s) == IF Len(s) > 0 /\ s[1] = 32 THEN trimLeft(Tail(s)) ELSE s

RECURSIVE trimRight(_)
trimRight(s) ==
  IF Len(s) > 0 /\ s[Len(s)] = 32 THEN trimRight(SubSeq(s, 1, Len(s) - 1)) ELSE s

trim(s) == trimRight(trimLeft(s))

\* String.prototype.indexOf: the first position (from 0) where n occurs in h, or -1
indexOf(h, n) ==
  LET hits == { i \in 0..(Len(h) - Len(n)) : SubSeq(h, i + 1, i + Len(n)) = n }
  IN  IF hits = {} THEN -1 ELSE CHOOSE i \in hits : \A j \in hits : i <= j

\* the order of Array.prototype.sort without a comparator: by code units
RECURSIVE strLess(_, _)
strLess(a, b) ==
  IF Len(b) = 0 THEN FALSE
  ELSE IF Len(a) = 0 THEN TRUE
  ELSE IF a[1] # b[1] THEN a[1] < b[1]
  ELSE strLess(Tail(a), Tail(b))

RECURSIVE insertSorted(_, _)
insertSorted(x, s) ==
  IF Len(s) = 0 THEN <<x>>
  ELSE IF strLess(x, s[1]) THEN <<x>> \o s
  ELSE <<s[1]>> \o insertSorted(x, Tail(s))

\* sort: function(items) { return items.sort(); }
RECURSIVE sort(_)
sort(list) == IF Len(list) = 0 THEN <<>> ELSE insertSorted(list[1], sort(Tail(list)))

\* match: function(item, term): case-insensitive containment
match(item, t) == indexOf(toLowerCase(item), toLowerCase(t)) >= 0

\* items[i] of JavaScript: undefined outside the array
ItemAt(list, i) == IF i >= 0 /\ i < Len(list) THEN list[i + 1] ELSE undefined


\* ------------------------------------------------------------------- state
VARIABLES
  options,      \* this.options: minLength, itemLimit, prefetch, typeOf(source)
  source,       \* options.source when it is an array (sorted in place by sort)
  input,        \* the value of the bound input element
  term,         \* this.term
  index,        \* this.index
  items,        \* this.items
  timer,        \* this.timer: the handle of the last timeout created (0: null)
  cache,        \* this.cache: key -> array
  visible,      \* whether the menu element is shown
  rows,         \* the number of <li> rows in the menu element
  timers,       \* the timeouts window holds: [id, term], term bound by the closure
  requests,     \* the Request.JSON calls in flight: [kind, term]
  typed,        \* the term of the last keystroke that reached lookup()
  stroke,       \* the last keyup of a non-navigation key: "none", "short", "long"
  burst,        \* keystrokes that reached lookup() since a timer last ran (to MaxBurst)
  first,        \* term -> the first list process rendered and cached for it
                \* (recorded for array and function sources)
  closed,       \* 'enter', 'tab' or 'esc' has hidden the menu since a non-navigation
                \* key was last released
  emitted,      \* the events the last step fired: [name, item, index]
  access,       \* the source accesses the last step made
  matched,      \* the items the last step passed to options.matcher
  highlighted,  \* the items the last step passed to highlight
  error,        \* the exception the last step ended with, or "none"
  run,          \* the current run of presses of one of 'up', 'down': [key, start, len]
  last          \* the last step: [op, key, arg, raw, proc, was], raw the array
                \* process rendered, as it was handed over; proc what became of
                \* process: "none" (not called), "threw", "falsy" (a function source
                \* gave nothing to process), "blank" (no term), "empty" (an empty
                \* array), "rendered"; was the list a response sent for another term
                \* replaced, when the menu was showing the list cached for this.term

VARIABLES
  instances,    \* Titon.TypeAhead.instances: id -> the widget registered under it,
                \* [serial, options], serial the order of construction
  made,         \* the number of widgets constructed so far
  call,         \* the last factory call: [id, options, returned, inits], returned the
                \* serial of the widget handed back (0: the call threw), inits the
                \* number of 'init' events fired during the call
  text,         \* the item string of the last highlight call
  html          \* what that call returned

widget == << options, source, input, term, index, items, timer, cache, visible, rows,
             timers, requests, typed, stroke, burst, first, closed, emitted, access,
             matched, highlighted, error, run, last >>

registry == << instances, made, call >>

markup == << text, html >>

vars == << widget, registry, markup >>

MinLengths == {1, 2}
ItemLimits == {2, 3}

NoRun == [key |-> "", start |-> -1, len |-> 0]
NoEvents == <<>>

\* the option sets a widget is constructed with here: prefetch only matters with a
\* locator source; a locator source is run with the smaller itemLimit only, and
\* with prefetch with the larger minLength only
Configurations ==
  { o \in [minLength : MinLengths, itemLimit : ItemLimits, prefetch : BOOLEAN,
           sourceType : {"array", "string", "function"}]
      : /\ o.prefetch => (o.sourceType = "string" /\ o.minLength = 2)
        /\ o.sourceType = "string" => o.itemLimit = 2 }

NoCall == [id |-> "", options |-> <<>>, returned |-> 0, inits |-> 0]

\* initialize: what construction leaves behind under the options given; with
\* prefetch and a locator source the prefetch request is in flight
Constructed ==
  /\ source \in IF options.sourceType = "array" THEN Lists ELSE {<<>>}
  /\ input = <<>>
  /\ index = -1
  /\ items = <<>>
  /\ timer = 0
  /\ cache = <<>>
  /\ visible = FALSE
  /\ rows = 0
  /\ timers = {}
  /\ requests = IF options.prefetch /\ options.sourceType = "string"
                THEN {[kind |-> "prefetch", term |-> <<>>]} ELSE {}
  /\ typed = <<>>
  /\ stroke = "none"
  /\ burst = 0
  /\ first = <<>>
  /\ closed = FALSE
  /\ emitted = <<[name |-> "init", item |-> <<>>, index |-> -1]>>
  /\ access = IF options.prefetch /\ options.sourceType = "string" THEN {"fetch"} ELSE {}
  /\ matched = <<>>
  /\ highlighted = <<>>
  /\ error = "none"
  /\ run = NoRun
  /\ last = [op |-> "initialize", key |-> "", arg |-> <<>>, raw |-> <<>>, proc |-> "none",
              was |-> <<>>]
  /\ instances = <<>>
  /\ made = 0
  /\ call = NoCall

\* initialize: the state after construction; lookup has set no term and highlight
\* has not been called
Init ==
  /\ options \in Configurations
  /\ term = <<>>
  /\ text = <<>>
  /\ html = <<>>
  /\ Constructed

\* Titon.Module's isVisible
isVisible == visible

\* a loop that filters the whole list and cuts the result to itemLimit afterwards
filterThenSlice(list, i, kept, seen) ==
  LET all == SelectSeq(list, LAMBDA x : match(x, term))
  IN  [items |-> SubSeq(all, 1, Min(Len(all), options.itemLimit)), seen |-> list]

\* the loop of process: keep the matching items, stop at itemLimit kept items.
\* kept: this.items, each one passed to highlight; seen: the items handed to the matcher
RECURSIVE filterLoop(_, _, _, _)
filterLoop(list, i, kept, seen) ==
  IF i > Len(list) THEN [items |-> kept, seen |-> seen]
  ELSE IF Len(kept) >= options.itemLimit THEN [items |-> kept, seen |-> seen]
  ELSE IF ~match(list[i], term) THEN filterLoop(list, i + 1, kept, Append(seen, list[i]))
  ELSE filterLoop(list, i + 1, Append(kept, list[i]), Append(seen, list[i]))

\* a _position that shows the menu whatever it holds
positionAlways(list) == TRUE

\* _position: with no items the menu is hidden, else it is shown
_position(list) == Len(list) > 0

\* a process that clears this.items and this.index when it returns at its guard
processResetting(raw) ==
  IF Len(term) = 0 \/ Len(raw) = 0
  THEN [rendered |-> FALSE, items |-> <<>>, index |-> -1, rows |-> rows,
        visible |-> FALSE, sorted |-> raw, seen |-> <<>>, marked |-> <<>>,
        events |-> NoEvents]
  ELSE LET sorted == sort(raw)
           r == filterLoop(sorted, 1, <<>>, <<>>)
       IN  [rendered |-> TRUE, items |-> r.items, index |-> -1, rows |-> Len(r.items),
            visible |-> _position(r.items),
            sorted |-> sorted, seen |-> r.seen, marked |-> r.items,
            events |-> <<[name |-> "show", item |-> <<>>, index |-> -1]>>]

\* process(raw): what one call leaves behind.  rendered: the call went past its
\* guard; sorted: the array it was handed, as sort leaves it (in place)
process(raw) ==
  IF Len(term) = 0 \/ Len(raw) = 0
  THEN [rendered |-> FALSE, items |-> items, index |-> index, rows |-> rows,
        visible |-> FALSE, sorted |-> raw, seen |-> <<>>, marked |-> <<>>,
        events |-> NoEvents]
  ELSE LET sorted == sort(raw)
           r == filterLoop(sorted, 1, <<>>, <<>>)
       IN  [rendered |-> TRUE, items |-> r.items, index |-> -1, rows |-> Len(r.items),
            visible |-> _position(r.items),
            sorted |-> sorted, seen |-> r.seen, marked |-> r.items,
            events |-> <<[name |-> "show", item |-> <<>>, index |-> -1]>>]

\* the state a process call leaves, given the cache as the in-place sort left it
\* a render that caches nothing
rememberNothing(list, base) == base

\* this.cache[this.term] = this.items
remember(list, base) == (term :> list) @@ base

Processed(p, base) ==
  /\ items' = p.items
  /\ index' = p.index
  /\ rows' = p.rows
  /\ visible' = p.visible
  /\ cache' = IF p.rendered THEN remember(p.items, base) ELSE base
  /\ first' = IF p.rendered /\ term \notin DOMAIN first /\ options.sourceType # "string"
              THEN (term :> p.items) @@ first ELSE first
  /\ matched' = p.seen
  /\ highlighted' = p.marked
  /\ emitted' = p.events


\* the burst count after a step that is neither a keystroke nor a timer: it is
\* kept while a timer is pending and dropped once none is
Quiet == IF timers = {} THEN 0 ELSE burst

\* the smallest handle window.setTimeout can hand out: one no pending timeout holds
FreshTimer == CHOOSE i \in 1..MaxTimers :
                /\ \A t \in timers : t.id # i
                /\ \A j \in 1..MaxTimers : (\A t \in timers : t.id # j) => i <= j

\* a _lookup that leaves the pending timeout running
clearNothing(pending, handle) == pending

\* window.clearTimeout(handle)
clearTimeout(pending, handle) == { t \in pending : t.id # handle }

\* lookup(term): store the term and start the throttle timer
lookup(pending, t) ==
  /\ term' = t
  /\ timer' = FreshTimer
  /\ timers' = pending \cup {[id |-> FreshTimer, term |-> t]}

\* a _lookup that takes every term as long enough
tooShortNever(t) == FALSE

\* term.length < this.options.minLength
tooShort(t) == Len(t) < options.minLength

\* _lookup(e) on keyup of a non-navigation key, the input holding value
_lookup(value) ==
  LET pending == clearTimeout(timers, timer)
      t == trim(value)
  IN  /\ \E i \in 1..MaxTimers : \A x \in pending : x.id # i
      /\ input' = value
      /\ IF tooShort(t)
         THEN /\ visible' = FALSE
              /\ timers' = pending
              /\ UNCHANGED << term, timer >>
         ELSE /\ lookup(pending, t)
              /\ UNCHANGED visible
      /\ IF Len(t) < options.minLength
         THEN /\ stroke' = "short"
              /\ burst' = 0
              /\ UNCHANGED typed
         ELSE /\ stroke' = "long"
              /\ typed' = t
              /\ burst' = IF timers = {} THEN 1 ELSE Min(burst + 1, MaxBurst)
      /\ emitted' = NoEvents
      /\ access' = {}
      /\ matched' = <<>>
      /\ highlighted' = <<>>
      /\ error' = "none"
      /\ run' = NoRun
      /\ last' = [op |-> "_lookup", key |-> "", arg |-> t, raw |-> <<>>, proc |-> "none",
              was |-> <<>>]
      /\ closed' = FALSE
      /\ UNCHANGED << options, source, index, items, cache, rows, requests, first >>

\* the user edits the input and releases the key
KeyUp == \E value \in InputValues : _lookup(value)

\* the index 'up' and 'down' move to, among length rows
cycleUp(i, length) == IF i - 1 < 0 THEN length - 1 ELSE i - 1

\* a 'down' that stops at the last row
cycleDownStuck(i, length) == IF i + 1 >= length THEN length - 1 ELSE i + 1

cycleDown(i, length) == IF i + 1 >= length THEN 0 ELSE i + 1

\* a switch whose 'enter' case resets the index
cycleToClosed(key, i, length) ==
  CASE key = "up" -> cycleUp(i, length)
    [] key = "down" -> cycleDown(i, length)
    [] key = "tab" -> 0
    [] key = "enter" -> -1
    [] key = "esc" -> -1

\* a switch whose 'esc' case leaves the index alone
cycleToNoReset(key, i, length) ==
  CASE key = "up" -> cycleUp(i, length)
    [] key = "down" -> cycleDown(i, length)
    [] key = "tab" -> 0
    [] key = "enter" -> i
    [] key = "esc" -> i

\* the switch of _cycle: the index each key leaves
cycleTo(key, i, length) ==
  CASE key = "up" -> cycleUp(i, length)
    [] key = "down" -> cycleDown(i, length)
    [] key = "tab" -> 0
    [] key = "enter" -> i
    [] key = "esc" -> -1

\* a switch whose 'tab' case does not hide the menu
closesNoTab(key) == key \in {"enter", "esc"}

\* the cases of the switch that end with this.hide()
closes(key) == key \in {"tab", "enter", "esc"}

\* _cycle(e) on keydown of key; _lookup(e) returns at once for these keys
_cycle(key) ==
  LET length == Min(Len(items), options.itemLimit)
      acts == length # 0 /\ isVisible
      i == cycleTo(key, index, length)
      fired == CASE key = "tab" -> <<[name |-> "select", item |-> ItemAt(items, 0), index |-> 0]>>
                 [] key = "enter" ->
                      <<[name |-> "select", item |-> ItemAt(items, index), index |-> index]>>
                 [] key = "esc" -> <<[name |-> "reset", item |-> <<>>, index |-> -1]>>
                 [] OTHER -> NoEvents
  IN  /\ IF ~acts
         THEN /\ UNCHANGED << index, input, visible, closed >>
              /\ emitted' = NoEvents
              /\ error' = "none"
              /\ run' = NoRun
         ELSE /\ index' = i
              /\ emitted' = fired
              /\ visible' = IF closes(key) THEN FALSE ELSE visible
              /\ closed' = (closed \/ closes(key))
              \* rows[this.index].addClass(...) throws when the menu has no such row
              /\ error' = IF i >= 0 /\ i >= rows THEN "TypeError" ELSE "none"
              /\ input' = IF i >= 0
                          THEN (IF i < rows THEN ItemAt(items, i) ELSE input)
                          ELSE (IF key = "esc" THEN term ELSE input)
              /\ run' = IF key \notin {"up", "down"} THEN NoRun
                        ELSE IF run.key # key \/ run.len >= length \/ key = "up"
                        THEN [key |-> key, start |-> index, len |-> 1]
                        ELSE [key |-> key, start |-> run.start, len |-> run.len + 1]
      /\ access' = {}
      /\ matched' = <<>>
      /\ highlighted' = <<>>
      /\ last' = [op |-> "_cycle", key |-> key, arg |-> <<>>, raw |-> <<>>, proc |-> "none",
              was |-> <<>>]
      /\ UNCHANGED << options, source, term, timer, cache, rows, timers, requests,
                      items, typed, stroke, first >>
      /\ burst' = Quiet

\* the user presses a navigation key
KeyDown == \E key \in NavKeys : _cycle(key)


\* what calling a function source through attempt() can give: the call threw
\* (attempt returns null), a falsy return, or an array
FunctionOutcomes == {"throw", "null", "array"}

\* if (response): only an array goes on to process; attempt() gives null for a
\* call that threw
answered(outcome) == outcome = "array"

\* new Request.JSON(...).get() of a lookup: the request is in flight, or, with
\* MaxInFlight lookup requests already in flight, it fails at once
send(t) ==
  IF Cardinality({ r \in requests : r.kind = "lookup" }) >= MaxInFlight THEN requests
  ELSE requests \cup {[kind |-> "lookup", term |-> t]}

\* nothing is rendered and nothing is hidden
NotProcessed ==
  /\ UNCHANGED << items, index, rows, visible, cache, first >>
  /\ matched' = <<>>
  /\ highlighted' = <<>>
  /\ emitted' = NoEvents

\* a lookup that never finds its term in the cache
cacheHitNever(key) == FALSE

\* this.cache[key]: an array, which is truthy even when empty, or undefined
cacheHit(key) == key \in DOMAIN cache

\* the step's record: what ran, and the array process was handed, if it rendered it
Ran(op, arg, raw, p) ==
  last' = [op |-> op, key |-> "", arg |-> arg, raw |-> IF p.rendered THEN raw ELSE <<>>,
           proc |-> IF p.rendered THEN "rendered"
                    ELSE IF Len(term) = 0 THEN "blank" ELSE "empty",
           was |-> IF /\ op = "lookup" /\ arg # term /\ p.rendered
                      /\ visible /\ term \in DOMAIN cache /\ items = cache[term]
                   THEN items ELSE <<>>]

RanNoProcess(op, arg, why) ==
  last' = [op |-> op, key |-> "", arg |-> arg, raw |-> <<>>, proc |-> why, was |-> <<>>]

\* the function lookup hands to window.setTimeout, run when the timeout t expires
lookupTimeout(t) ==
  /\ timers' = timers \ {t}
  /\ error' = "none"
  /\ run' = NoRun
  /\ UNCHANGED << options, input, term, timer, typed, stroke, burst >>
  /\ IF cacheHit(t.term)
     THEN \* check the cache first
          LET p == process(cache[t.term])
          IN  /\ Processed(p, [cache EXCEPT ![t.term] = p.sorted])
              /\ Ran("timeout", t.term, cache[t.term], p)
              /\ access' = {}
              /\ UNCHANGED << source, requests >>
     ELSE IF options.sourceType = "string"
     THEN IF cacheHit(Url)
          THEN LET p == process(cache[Url])
               IN  /\ Processed(p, [cache EXCEPT ![Url] = p.sorted])
                   /\ Ran("timeout", t.term, cache[Url], p)
                   /\ access' = {}
                   /\ UNCHANGED << source, requests >>
          ELSE /\ requests' = send(t.term)
               /\ access' = {"fetch"}
               /\ NotProcessed
               /\ RanNoProcess("timeout", t.term, "none")
               /\ UNCHANGED source
     ELSE IF options.sourceType = "array"
     THEN LET p == process(source)
          IN  /\ Processed(p, cache)
              /\ Ran("timeout", t.term, source, p)
              /\ source' = p.sorted
              /\ access' = {"array"}
              /\ UNCHANGED requests
     ELSE \* a function source
          /\ access' = {"call"}
          /\ UNCHANGED << source, requests >>
          /\ \E outcome \in FunctionOutcomes :
               \E response \in IF outcome = "array" THEN Lists ELSE {<<>>} :
                 IF answered(outcome)
                 THEN LET p == process(response)
                      IN  Processed(p, cache) /\ Ran("timeout", t.term, response, p)
                 ELSE /\ NotProcessed
                      /\ RanNoProcess("timeout", t.term,
                                      IF outcome = "throw" THEN "threw" ELSE "falsy")
  /\ UNCHANGED closed

\* the throttle timer expires
Timeout == \E t \in timers : lookupTimeout(t)

\* a handler that drops the response of a request sent for another term than
\* this.term
takenIfCurrent(r) == r.term = term

\* onSuccess: this.process.bind(this): the response of every lookup request goes to
\* process, whatever term the request was sent for
taken(r) == TRUE

\* a prefetch whose answer is not stored
prefetchedNowhere(response) == cache

\* this.cache[url] = items
prefetched(response) == (Url :> response) @@ cache

\* onSuccess of a request: of the prefetch, or of a lookup (process.bind(this))
onSuccess(r, response) ==
  /\ requests' = requests \ {r}
  /\ error' = "none"
  /\ run' = NoRun
  /\ access' = {}
  /\ UNCHANGED << options, source, input, term, timer, timers, typed, stroke >>
  /\ burst' = Quiet
  /\ IF r.kind = "prefetch"
     THEN /\ items' = response
          /\ cache' = prefetched(response)
          /\ matched' = <<>>
          /\ highlighted' = <<>>
          /\ emitted' = NoEvents
          /\ RanNoProcess("prefetch", r.term, "none")
          /\ UNCHANGED << index, rows, visible, first >>
     ELSE IF taken(r)
     THEN LET p == process(response)
          IN  Processed(p, cache) /\ Ran("lookup", r.term, response, p)
     ELSE NotProcessed /\ RanNoProcess("lookup", r.term, "none")
  /\ UNCHANGED closed

\* the server answers a request with some array
Response == \E r \in requests : \E response \in Lists : onSuccess(r, response)

\* a request fails: no handler is set for it
Failure ==
  \E r \in requests :
    /\ requests' = requests \ {r}
    /\ error' = "none"
    /\ run' = NoRun
    /\ access' = {}
    /\ RanNoProcess("failure", r.term, "none")
    /\ NotProcessed
    /\ UNCHANGED << options, source, input, term, timer, timers, typed, stroke, closed >>
    /\ burst' = Quiet

Next ==
  \/ KeyUp /\ UNCHANGED << registry, markup >>
  \/ KeyDown /\ UNCHANGED << registry, markup >>
  \/ Timeout /\ UNCHANGED << registry, markup >>
  \/ Response /\ UNCHANGED << registry, markup >>
  \/ Failure /\ UNCHANGED << registry, markup >>

Spec == Init /\ [][Next]_vars

\* --------------------------------------------------------------- highlight

\* the characters highlight escapes in the term: - [ ] { } ( ) * + ? . , \ ^ $ | #
Special == {45, 91, 93, 123, 125, 40, 41, 42, 43, 63, 46, 44, 92, 94, 36, 124, 35}

\* '<span class="highlight">'
Opening == << 60, 115, 112, 97, 110, 32, 99, 108, 97, 115, 115, 61, 34, 104, 105, 103,
              104, 108, 105, 103, 104, 116, 34, 62 >>

\* '</span>'
Closing == << 60, 47, 115, 112, 97, 110, 62 >>

\* this.term.replace(/[\-\[\]{}()*+?.,\\^$|#]/g, "\\$&"): a backslash before each
\* special character
RECURSIVE escape(_)
escape(s) ==
  IF s = <<>> THEN <<>>
  ELSE (IF Head(s) \in Special THEN <<92, Head(s)>> ELSE <<Head(s)>>) \o escape(Tail(s))

\* String.prototype.split(" "): the pieces of s between spaces, word the piece
\* being read
RECURSIVE split(_, _)
split(s, word) ==
  IF s = <<>> THEN <<word>>
  ELSE IF Head(s) = 32 THEN <<word>> \o split(Tail(s), <<>>)
  ELSE split(Tail(s), Append(word, Head(s)))

\* new RegExp(t, "ig") for an escaped sub-term: the literal it matches, a backslash
\* and the character after it standing for that character
RECURSIVE RegExp(_)
RegExp(t) ==
  IF t = <<>> THEN <<>>
  ELSE IF Head(t) = 92 /\ Len(t) >= 2 THEN <<t[2]>> \o RegExp(SubSeq(t, 3, Len(t)))
  ELSE <<Head(t)>> \o RegExp(Tail(t))

\* the pattern matches in s at position i, case ignored
matchesAt(s, i, literal) ==
  /\ i + Len(literal) - 1 <= Len(s)
  /\ toLowerCase(SubSeq(s, i, i + Len(literal) - 1)) = toLowerCase(literal)

\* item.replace(pattern, function(match) {...}) from position i on: every match,
\* left to right and not overlapping, is wrapped in the span
RECURSIVE replace(_, _, _)
replace(s, literal, i) ==
  IF i > Len(s) THEN <<>>
  ELSE IF matchesAt(s, i, literal)
  THEN Opening \o SubSeq(s, i, i + Len(literal) - 1) \o Closing
         \o replace(s, literal, i + Len(literal))
  ELSE <<s[i]>> \o replace(s, literal, i + 1)

\* for (var i = 0, t; t = terms[i]; i++): the loop ends at the first empty sub-term
RECURSIVE highlightLoop(_, _, _)
highlightLoop(string, terms, i) ==
  IF i > Len(terms) \/ terms[i] = <<>> THEN string
  ELSE highlightLoop(replace(string, RegExp(terms[i]), 1), terms, i + 1)

\* highlight(item)
highlight(string) == highlightLoop(string, split(escape(term), <<>>), 1)

\* the terms a lookup can have set, trimmed: "a", "b", "B", "ab", "a b", "b a",
\* "a  b", ".", "b ."
Terms == { <<97>>, <<98>>, <<66>>, <<97, 98>>, <<97, 32, 98>>, <<98, 32, 97>>,
           <<97, 32, 32, 98>>, <<46>>, <<98, 32, 46>> }

\* item strings: "ab", "Ab", "ba", "a.b", "b", "abab", "a b"
Strings == { <<97, 98>>, <<65, 98>>, <<98, 97>>, <<97, 46, 98>>, <<98>>,
             <<97, 98, 97, 98>>, <<97, 32, 98>> }

\* a widget whose lookup has set this.term, and an item string to highlight
HighlightInit ==
  \E t \in Terms, string \in Strings :
    /\ term = t
    /\ text = string
    /\ html = <<>>
    /\ options = [minLength |-> 1, itemLimit |-> 2, prefetch |-> FALSE,
                  sourceType |-> "function"]
    /\ Constructed

\* this.highlight(item)
Highlight ==
  /\ html = <<>>
  /\ html' = highlight(text)
  /\ UNCHANGED << widget, registry, text >>

HighlightNext == Highlight

HighlightSpec == HighlightInit /\ [][HighlightNext]_vars

\* ---------------------------------------------------------------- registry

\* the elements of the page: two input fields and one element of another tag
Ids == {"search", "city", "banner"}

\* $(id).get('tag')
tag(id) == IF id = "banner" THEN "div" ELSE "input"

\* a lookup in the registry that never finds the id
registeredNever(id) == FALSE

\* if (Titon.TypeAhead.instances[id])
registered(id) == id \in DOMAIN instances

\* Titon.TypeAhead.factory(id, options): the registered widget if there is one;
\* otherwise new Titon.TypeAhead(id, options), which throws before anything is
\* registered when the element is no input field and fires 'init' otherwise
factory(id, opts) ==
  IF registered(id)
  THEN /\ call' = [id |-> id, options |-> opts, returned |-> instances[id].serial,
                   inits |-> 0]
       /\ UNCHANGED << instances, made >>
  ELSE IF tag(id) # "input"
  THEN /\ call' = [id |-> id, options |-> opts, returned |-> 0, inits |-> 0]
       /\ UNCHANGED << instances, made >>
  ELSE /\ made' = made + 1
       /\ instances' = (id :> [serial |-> made + 1, options |-> opts]) @@ instances
       /\ call' = [id |-> id, options |-> opts, returned |-> made + 1, inits |-> 1]

Factory == \E id \in Ids, opts \in Configurations : factory(id, opts)

RegistryNext == Factory /\ UNCHANGED << widget, markup >>

\* the page before any factory call, beside one widget built with new
RegistryInit ==
  /\ Init
  /\ options = [minLength |-> 1, itemLimit |-> 2, prefetch |-> FALSE,
                sourceType |-> "function"]

RegistrySpec == RegistryInit /\ [][RegistryNext]_vars


\* ------------------------------------------------------------------ claims

\* C1: at most one throttle timer is pending at any time, it is the one this.timer
\* names and it carries the term of the last keystroke that reached lookup(); such a
\* keystroke leaves exactly one timer pending, whatever was pending before it; and
\* when a timer runs, it resolves the term of the last keystroke and leaves no other
\* timer behind, so a burst of keystrokes ends in one resolution, of its last term.
Debounce ==
  /\ Cardinality(timers) <= 1
  /\ \A t \in timers : t.id = timer /\ t.term = typed
  /\ (last.op = "_lookup" /\ stroke = "long") => Cardinality(timers) = 1
  /\ last.op = "timeout" => (timers = {} /\ last.arg = typed)

\* a burst of at least two keystrokes has just been resolved from the source
DebounceWitness == last.op = "timeout" /\ burst >= 2 /\ access # {} /\ Len(typed) > 0

\* C2, as claimed: after a keystroke whose trimmed value is shorter than minLength
\* no timer is pending and the menu is hidden, for as long as no keystroke with a
\* long enough term follows.
ShortStaysHidden == stroke = "short" => (timers = {} /\ ~visible)

\* C2, amended: after such a keystroke no timer is pending until a long enough
\* keystroke follows, the keystroke itself leaves the menu hidden, and from then on
\* only the response of a request sent earlier shows the menu again.
ShortHiddenUntilResponse ==
  [][ /\ stroke' = "short" => timers' = {}
      /\ (last'.op = "_lookup" /\ stroke' = "short") => ~visible'
      /\ (stroke = "short" /\ stroke' = "short" /\ ~visible /\ visible')
           => last'.op = "lookup" ]_vars

\* a too short keystroke has just hidden a menu rendered for an earlier term
ShortWitness ==
  /\ stroke = "short" /\ last.op = "_lookup" /\ Len(last.arg) < options.minLength
  /\ ~visible /\ timers = {} /\ Len(items) > 0 /\ Len(term) > 0

\* C3: in every reachable state this.items holds at most itemLimit items.
ItemLimitRespected == Len(items) <= options.itemLimit

\* C4: in every reachable state this.index is -1 or an index into this.items.
IndexValid == index = -1 \/ (0 <= index /\ index < Len(items))


\* C5, as claimed: the menu is visible exactly when this.term and this.items are
\* both non-empty (stated for a widget without prefetch, where this.items only
\* ever holds a rendered list).
VisibleIff == ~options.prefetch => (visible <=> (Len(term) > 0 /\ Len(items) > 0))

\* C5, amended: the menu becomes visible only by a render that leaves this.items
\* non-empty for a non-empty this.term (hiding clears neither, so the converse
\* fails).
ShownOnlyWithItems ==
  [][ (~visible /\ visible') => (Len(term') > 0 /\ Len(items') > 0 /\ last'.raw # <<>>) ]_vars

\* a render has just shown the menu
ShownWitness == visible /\ last.raw # <<>> /\ index = -1 /\ Len(items) > 0 /\ rows = Len(items)

\* C6, as claimed: once a list has been rendered and cached for a term, every later
\* lookup of that term renders that first list again and makes no source access.
CacheIdempotent ==
  [][ (last'.op = "timeout" /\ last'.arg \in DOMAIN first)
        => (items' = first[last'.arg] /\ access' = {}) ]_vars

\* C6, amended: once cache[t] is stored, a later lookup of t makes no source access
\* and processes the list cache[t] holds: a non-empty list is rendered as it is and
\* shown, an empty one hides the menu and leaves this.items as it was.  cache[t]
\* still is the first list stored for t unless the response of a remote request
\* replaced it.
CacheReplay ==
  [][ \A t \in DOMAIN cache \ {Url} :
        /\ (last'.op = "timeout" /\ last'.arg = t)
             => /\ access' = {}
                /\ IF Len(cache[t]) > 0
                   THEN items' = cache[t] /\ cache'[t] = cache[t] /\ visible'
                   ELSE items' = items /\ ~visible'
        /\ cache'[t] # cache[t] => last'.op = "lookup"
        /\ t \in DOMAIN first => first[t] = cache[t] ]_vars

\* a lookup has just been answered from the cache with the first list of its term
CacheReplayWitness ==
  /\ last.op = "timeout" /\ options.sourceType = "array" /\ access = {}
  /\ last.arg \in DOMAIN first /\ items = first[last.arg] /\ visible

\* C7, as claimed: with N items open, 'up' from -1 leads to N - 1, and N presses of
\* 'down' lead back to the index they started from, -1 included.
CyclingClaimed ==
  /\ (run.key = "up" /\ run.start = -1) => index = Len(items) - 1
  /\ (run.key = "down" /\ run.len = Len(items)) => index = run.start

\* C7, amended: with L = min(N, itemLimit) the length _cycle works with (L = N after
\* a render), 'up' from -1 leads to L - 1, and L presses of 'down' lead back to the
\* index they started from when that is one of 0..L-1; from -1 they lead to L - 1.
CyclingLaw ==
  LET L == Min(Len(items), options.itemLimit)
  IN  /\ (run.key = "up" /\ run.start = -1) => index = L - 1
      /\ (run.key = "down" /\ run.len = L /\ run.start >= 0 /\ run.start < L)
           => index = run.start
      /\ (run.key = "down" /\ run.len = L /\ run.start = -1) => index = L - 1

\* 'down' has been pressed as often as there are rows, at least twice, from a row
CyclingWitness ==
  /\ run.key = "down" /\ run.len = Min(Len(items), options.itemLimit)
  /\ run.len >= 2 /\ run.start >= 0 /\ index = run.start /\ visible


\* the menu is open: visible, with this.items non-empty
Open == visible /\ Len(items) > 0

Select(item, i) == [name |-> "select", item |-> item, index |-> i]

\* C8: select is fired only by 'enter' or 'tab' on an open menu; 'enter' fires one
\* select(items[index], index), 'tab' sets the index to 0 and fires one
\* select(items[0], 0), and both hide the menu; 'up' and 'down' set the input's
\* value to items[index] and fire no select.
SelectionCommit ==
  [][ LET pressed(k) == last'.op = "_cycle" /\ last'.key = k /\ Open
      IN  /\ (\E n \in DOMAIN emitted' : emitted'[n].name = "select")
               => (pressed("enter") \/ pressed("tab"))
          /\ pressed("enter") => (emitted' = <<Select(ItemAt(items, index), index)>> /\ ~visible')
          /\ pressed("tab")
               => (index' = 0 /\ emitted' = <<Select(ItemAt(items, 0), 0)>> /\ ~visible')
          /\ (pressed("up") \/ pressed("down"))
               => (input' = ItemAt(items', index') /\ emitted' = NoEvents) ]_vars

\* C9: 'esc' on an open menu, after any presses of 'up' and 'down', sets the index
\* to -1 and the input's value to this.term, fires one reset and no select, and
\* hides the menu.
EscapeResets ==
  [][ (last'.op = "_cycle" /\ last'.key = "esc" /\ Open)
        => /\ index' = -1
           /\ input' = term
           /\ emitted' = <<[name |-> "reset", item |-> <<>>, index |-> -1]>>
           /\ ~visible' ]_vars

\* 'esc' has just closed a menu of several items and put the term back in the input
EscapeWitness ==
  /\ last.op = "_cycle" /\ last.key = "esc" /\ Len(emitted) = 1 /\ emitted[1].name = "reset"
  /\ ~visible /\ index = -1 /\ input = term /\ Len(term) > 0 /\ Len(items) >= 2

\* the items of list that match the term, in the order of list
Matching(list) == SelectSeq(list, LAMBDA x : match(x, term))

\* the position in list of its n-th matching item; the end of list when it has fewer
CutAt(list, n) ==
  LET at == { j \in 1..Len(list) : Len(Matching(SubSeq(list, 1, j))) >= n }
  IN  IF at = {} THEN Len(list) ELSE CHOOSE j \in at : \A k \in at : j <= k

\* C10: after a render of a non-empty array for a non-empty term, this.items is the
\* first itemLimit items of sort(array) that match the term, in that order; each of
\* them, and no other item, went through highlight; and the matcher saw sort(array)
\* up to the itemLimit-th match and nothing behind it.
RenderResult ==
  last.raw # <<>> =>
    LET sorted == sort(last.raw)
        all == Matching(sorted)
    IN  /\ Len(term) > 0
        /\ items = SubSeq(all, 1, Min(Len(all), options.itemLimit))
        /\ highlighted = items
        /\ matched = SubSeq(sorted, 1, CutAt(sorted, options.itemLimit))

\* a render of three unsorted items has stopped at the second match
RenderWitness ==
  /\ Len(last.raw) = 3 /\ last.raw # sort(last.raw)
  /\ Len(items) = 2 /\ Len(matched) = 2 /\ options.itemLimit = 2
  /\ match(sort(last.raw)[3], term)


\* C11, as claimed: after 'esc' on an open menu, and after a lookup whose array is
\* empty or holds no matching item, this.term is '', this.index is -1 and
\* this.items is [].
SessionReset ==
  [][ ( \/ (last'.op = "_cycle" /\ last'.key = "esc" /\ Open)
        \/ last'.proc = "empty"
        \/ (last'.proc = "rendered" /\ Matching(last'.raw) = <<>>) )
        => (term' = <<>> /\ index' = -1 /\ items' = <<>>) ]_vars

\* C11, amended: 'esc' on an open menu sets this.index to -1 and keeps this.term and
\* this.items; a lookup whose array is empty hides the menu and keeps this.term,
\* this.index and this.items; a lookup whose array holds no matching item sets
\* this.index to -1 and this.items to [] and keeps this.term.  Each leaves the menu
\* hidden.
SessionKept ==
  [][ /\ (last'.op = "_cycle" /\ last'.key = "esc" /\ Open)
           => (index' = -1 /\ term' = term /\ items' = items /\ ~visible')
      /\ last'.proc = "empty"
           => (index' = index /\ term' = term /\ items' = items /\ ~visible')
      /\ (last'.proc = "rendered" /\ Matching(last'.raw) = <<>>)
           => (index' = -1 /\ term' = term /\ items' = <<>> /\ ~visible') ]_vars

\* a lookup has just come back empty while a list rendered earlier is still held
SessionWitness ==
  /\ last.proc = "empty" /\ ~visible /\ Len(items) > 0 /\ index >= 0 /\ Len(term) > 0


\* C12: the registry holds at most one widget per id: a factory call builds a widget
\* only for an id that has none, and every call for an id that has one returns that
\* widget, builds nothing, fires no 'init' and leaves the widget's options as they
\* were given at its construction.
RegistryOnce ==
  [][ /\ made' = Cardinality(DOMAIN instances')
      /\ \A a, b \in DOMAIN instances' :
           instances'[a].serial = instances'[b].serial => a = b
      /\ made' # made => (call'.id \notin DOMAIN instances /\ made' = made + 1)
      /\ \A id \in DOMAIN instances :
           /\ id \in DOMAIN instances' /\ instances'[id] = instances[id]
           /\ call'.id = id
                => (call'.returned = instances[id].serial /\ call'.inits = 0
                    /\ made' = made) ]_vars

\* a second call for a registered id, with other options than the widget was built with
RegistryWitness ==
  /\ call.id \in DOMAIN instances
  /\ call.inits = 0
  /\ call.returned = instances[call.id].serial
  /\ call.options # instances[call.id].options
  /\ Cardinality(DOMAIN instances) = 2


\* C13: when the source function throws during a fired lookup, nothing propagates
\* to the caller and afterwards the menu is not visible.
ThrowHides == last.proc = "threw" => (error = "none" /\ ~visible)


\* C14: with prefetch and a locator source, construction issues one fetch, which
\* carries no term, and no step issues another such fetch; its answer is stored in
\* the cache under the locator; and once it is stored, a fired lookup processes an
\* array from the cache and no step issues a fetch.
PrefetchOnce ==
  /\ (options.prefetch /\ options.sourceType = "string")
       => (requests = {[kind |-> "prefetch", term |-> <<>>]} /\ access = {"fetch"})
  /\ [][ /\ \A r \in requests' \ requests : r.kind = "lookup"
         /\ last'.op = "prefetch"
              => (Url \in DOMAIN cache' /\ cache'[Url] = items')
         /\ Url \in DOMAIN cache
              => /\ "fetch" \notin access'
                 /\ requests' \subseteq requests
                 /\ last'.op = "timeout" => last'.proc \in {"empty", "rendered"} ]_vars

\* the prefetched list is stored and a lookup fired later has rendered from it
PrefetchWitness ==
  /\ options.prefetch /\ Url \in DOMAIN cache
  /\ last.op = "timeout" /\ last.proc = "rendered" /\ last.raw = cache[Url]
  /\ access = {} /\ requests = {}
  /\ visible


\* the output with every opening and every closing span tag taken out, read from
\* position i on
RECURSIVE strip(_, _)
strip(s, i) ==
  IF i > Len(s) THEN <<>>
  ELSE IF i + Len(Opening) - 1 <= Len(s) /\ SubSeq(s, i, i + Len(Opening) - 1) = Opening
  THEN strip(s, i + Len(Opening))
  ELSE IF i + Len(Closing) - 1 <= Len(s) /\ SubSeq(s, i, i + Len(Closing) - 1) = Closing
  THEN strip(s, i + Len(Closing))
  ELSE <<s[i]>> \o strip(s, i + 1)

\* C15: for every item string and every term, taking the opening and closing span
\* tags out of highlight(item) gives the item string back.
HighlightRoundTrip == html # <<>> => strip(html, 1) = text


\* C16, as claimed: whenever the menu is hidden, this.index is -1 (stated for a
\* widget without prefetch).
ClosedIndex == ~options.prefetch => (~visible => index = -1)

\* C16, amended: the key that hides an open menu leaves this.index at -1 for 'esc',
\* at 0 for 'tab' and where it was for 'enter'; a keystroke with a term shorter than
\* minLength and a lookup with an empty array hide the menu and leave this.index
\* where it was; and whenever a hidden menu becomes visible, this.index is -1.
ClosedIndexKept ==
  [][ /\ (last'.op = "_cycle" /\ Open /\ last'.key \in {"esc", "tab", "enter"})
           => /\ ~visible'
              /\ index' = CASE last'.key = "esc" -> -1
                            [] last'.key = "tab" -> 0
                            [] last'.key = "enter" -> index
      /\ (last'.op = "_lookup" /\ Len(last'.arg) < options.minLength)
           => (~visible' /\ index' = index)
      /\ last'.proc = "empty" => (~visible' /\ index' = index)
      /\ (~visible /\ visible') => index' = -1 ]_vars

\* 'enter' has just hidden the menu with the second row active
ClosedWitness ==
  /\ last.op = "_cycle" /\ last.key = "enter"
  /\ ~visible /\ index = 1 /\ Len(items) >= 2
  /\ Len(emitted) = 1 /\ emitted[1].name = "select"


\* C17: the response of a lookup request is never dropped: whatever term the request
\* was sent for, process gets the response and, unless it is empty, renders it for
\* the current this.term, replacing this.items and the rows; so a response sent for
\* an older term replaces the list rendered for a newer one (the witness).
StaleProcessed ==
  [][ last'.op = "lookup"
        => /\ last'.proc \in {"empty", "rendered"}
           /\ last'.proc = "rendered"
                => LET all == Matching(sort(last'.raw))
                   IN  /\ items' = SubSeq(all, 1, Min(Len(all), options.itemLimit))
                       /\ rows' = Len(items')
                       /\ term' = term ]_vars

\* the menu was showing the list cached for the newer term when the response sent
\* for an older term arrived, and that response has replaced it by another list
StaleWitness ==
  /\ last.op = "lookup" /\ last.arg # term /\ last.proc = "rendered"
  /\ last.was # <<>> /\ items # last.was
  /\ visible /\ rows = Len(items)


\* C18, as claimed: once 'enter', 'tab' or 'esc' has hidden the menu, it stays hidden
\* until the next non-navigation key is released: no timer and no request pending at
\* the key press shows it again.
ClosedStays == closed => ~visible

\* C18, amended: 'enter', 'tab' and 'esc' on an open menu hide it and cancel neither
\* the pending timer nor a request in flight; until the next non-navigation key is
\* released, the menu is shown again only by a timer that fires or by the response
\* of a lookup request, when the array it renders for this.term has a matching item.
ClosedUntil ==
  [][ /\ (last'.op = "_cycle" /\ Open /\ last'.key \in {"esc", "tab", "enter"})
           => (~visible' /\ closed')
      /\ last'.op = "_cycle" => UNCHANGED << timers, timer, requests >>
      /\ (closed /\ ~visible /\ visible')
           => /\ last'.op \in {"timeout", "lookup"}
              /\ last'.proc = "rendered"
              /\ Len(items') > 0
              /\ closed' ]_vars

\* the timer that was pending when a key hid the menu has fired and shown it again
ReopenedWitness ==
  /\ closed /\ visible
  /\ last.op = "timeout" /\ last.proc = "rendered" /\ last.arg = term
  /\ index = -1 /\ Len(emitted) = 1 /\ emitted[1].name = "show"


\* C19: every select event carries an index into this.items and the item at that
\* index (stated for a widget without prefetch); 'enter' before any 'up' or 'down'
\* fires no select with index -1 or an undefined item.
SelectValid ==
  ~options.prefetch =>
    \A k \in DOMAIN emitted :
      emitted[k].name = "select"
        => /\ 0 <= emitted[k].index /\ emitted[k].index < Len(items)
           /\ emitted[k].item = items[emitted[k].index + 1]


\* C20, as claimed: whenever the cache entry of a term t is written, it is the
\* sorted, filtered and capped form of the array the source gave for the lookup of
\* t (stated for a widget without prefetch).
CacheOwnAnswer ==
  [][ ~options.prefetch =>
        \A t \in DOMAIN cache' \ {Url} :
          (t \notin DOMAIN cache \/ cache'[t] # cache[t])
            => /\ last'.arg = t
               /\ last'.proc = "rendered" ]_vars

\* C20, amended: the cache entry of a term t is written only by a render that runs
\* while this.term is t, and it is the sorted, filtered and capped form of the array
\* that render was handed: the source's answer to the lookup of t when a timer
\* fired it, but for a response of a lookup request possibly the answer to a
\* request sent for another term.
CacheWhatRendered ==
  [][ /\ last'.proc = "rendered"
           => LET all == Matching(sort(last'.raw))
              IN  /\ term \in DOMAIN cache'
                  /\ cache'[term] = items'
                  /\ items' = SubSeq(all, 1, Min(Len(all), options.itemLimit))
      /\ \A t \in DOMAIN cache' \ {Url} :
           (t \notin DOMAIN cache \/ cache'[t] # cache[t])
             => /\ t = term /\ term' = term
                /\ last'.proc = "rendered"
                /\ last'.op \in {"timeout", "lookup"}
                /\ last'.op = "timeout" => last'.arg = t ]_vars

\* the entry of the current term has just been written from the response of a request
\* sent for another term
CacheWitness ==
  /\ last.op = "lookup" /\ last.arg # term /\ last.proc = "rendered"
  /\ term \in DOMAIN cache /\ cache[term] = items /\ Len(items) > 0
  /\ last.arg \notin DOMAIN cache

====
